---- MODULE Spec2Model ----
(***************************************************************************)
(* Model of src/logger.py: the SQL event store written by                  *)
(* CustomSqlHandler.emit, the run id handed out by SQL_mini_wizard, and    *)
(* the reports Custom_logger.finalize_logs derives from the run's rows at  *)
(* process exit.                                                           *)
(*                                                                         *)
(* Time is counted in whole seconds.  A duration is kept in seconds until  *)
(* the code formats it; FormatMinutes models f"{secs / 60:.2f} minutes".   *)
(* Logger names (areas) are strings other than the report key              *)
(* "Total runtime".                                                        *)
(***************************************************************************)
EXTENDS Integers, Sequences, FiniteSets, TLC

VARIABLES
    store,                \* table logs: the rows in insertion (log_id) order
    wizard,               \* SQL_mini_wizard._instance['etl_id'], NoInstance when _instance is None
    pc,                   \* the host process: "none", "running", "exited"
    report_runtime_json,  \* file report_runtime.json: <<>> when absent, else <<document>>
    report_errors_json,   \* file report_errors.json: <<>> when absent, else <<document>>
    report_json,          \* file report.json: the entries of the rolling history
    self_report,          \* attribute Custom_logger.report: <<>> while unset
    read_logs,            \* what cursor.fetchall() returned to the last _generate_runtime_report
    fault,                \* the I/O operation of the last finalization that failed, "none" if none did
    outcome,              \* how the last finalize_logs ended: "none", "returned", "raised"
    wrote,                \* the documents the last finalize_logs wrote
    etl_read_failed,      \* whether the SELECT of the last get_etl_id raised
    produced,             \* the reports _generate_runtime_report returned so far, newest first
    custom_logger,        \* the Custom_logger singleton: its attributes initialized and etl_id
    atexit_registered,    \* how often finalize_logs was registered with atexit in this process
    finalize_runs,        \* how often finalize_logs has run in this process
    handlers,             \* per logger name: the etl_id of each CustomSqlHandler added to it
    thread                \* per thread of the process: its position in get_logger or in a log call

loggerVars == <<custom_logger, atexit_registered, handlers, thread>>

vars == <<store, wizard, pc, report_runtime_json, report_errors_json, report_json,
          self_report, read_logs, fault, outcome, wrote, etl_read_failed, produced,
          custom_logger, atexit_registered, finalize_runs, handlers, thread>>

(***************************************************************************)
(* Bounds of the specifications.                                           *)
(***************************************************************************)
MaxRows == 3        \* Spec: rows in the store, and runtime reports before the last start
MaxRowsSeg == 4     \* SpecSeg: rows of the single run
MaxRowsHist == 301  \* SpecHist: rows in the store, one per run
MaxRowsRuns == 3    \* SpecRuns: rows in the store, and runtime reports before the last start
MaxRowsSub == 4     \* SpecSub: rows of the single run
MaxRowsThr == 2     \* SpecThr: rows in the store

(***************************************************************************)
(* Python values.                                                          *)
(***************************************************************************)
None == "None"
NoTime == -1
NoInstance == 0
HistoryCap == 300
TotalKey == "Total runtime"
reported_levels == <<"WARNING", "ERROR", "EXCEPTION", "CRITICAL">>

EmptyDict == [k \in {} |-> 0]
Put_keepFirst(d, k, v) ==
    IF k \in DOMAIN d THEN d ELSE [x \in (DOMAIN d) \cup {k} |-> IF x = k THEN v ELSE d[x]]

Put(d, k, v) == [x \in (DOMAIN d) \cup {k} |-> IF x = k THEN v ELSE d[x]]

Row(id, t, area, level, message) ==
    [instance_id |-> id, time |-> t, area_name |-> area, level |-> level, message |-> message]

(***************************************************************************)
(* f"{secs / 60:.2f} minutes": the value in hundredths of a minute,        *)
(* rounded to nearest (secs * 5 / 3 is never half-way), and the suffix.    *)
(***************************************************************************)
Hundredths(secs) == (10 * secs + 3) \div 6
FormatMinutes(secs) == [hundredths |-> Hundredths(secs), text |-> " minutes"]

(***************************************************************************)
(* _generate_runtime_report: the pass over the fetched rows.               *)
(***************************************************************************)
NewArea == [Total_runtime |-> 0, Entries |-> EmptyDict]

InitLoop(logs) ==
    [report |-> (TotalKey :> FormatMinutes(logs[Len(logs)].time - logs[1].time)),
     current_area |-> None,
     area_start_time |-> NoTime,
     sub_entry_start_time |-> NoTime,
     sub_entry_message |-> None]

ClosePreviousArea_keepSubEntry(st, log_time) ==
    LET cur == st.current_area
        r0 == IF cur \in DOMAIN st.report THEN st.report ELSE Put(st.report, cur, NewArea)
    IN [r0 EXCEPT ![cur].Total_runtime = @ + (log_time - st.area_start_time)]

ClosePreviousArea(st, log_time) ==
    LET cur == st.current_area
        r0 == IF cur \in DOMAIN st.report THEN st.report ELSE Put(st.report, cur, NewArea)
        r1 == [r0 EXCEPT ![cur].Total_runtime = @ + (log_time - st.area_start_time)]
    IN IF st.sub_entry_start_time # NoTime
       THEN [r1 EXCEPT ![cur].Entries =
                Put(@, st.sub_entry_message, log_time - st.sub_entry_start_time)]
       ELSE r1

AreaChange_keepStart(st, log) ==
    IF log.area_name # st.current_area
    THEN [st EXCEPT !.report = IF st.current_area # None
                                THEN ClosePreviousArea(st, log.time)
                                ELSE st.report,
                    !.current_area = log.area_name,
                    !.area_start_time = IF st.current_area # None THEN @ ELSE log.time,
                    !.sub_entry_start_time = NoTime]
    ELSE st

AreaChange_keepSubPhase(st, log) ==
    IF log.area_name # st.current_area
    THEN [st EXCEPT !.report = IF st.current_area # None
                                THEN ClosePreviousArea(st, log.time)
                                ELSE st.report,
                    !.current_area = log.area_name,
                    !.area_start_time = log.time]
    ELSE st

AreaChange(st, log) ==
    IF log.area_name # st.current_area
    THEN [st EXCEPT !.report = IF st.current_area # None
                                THEN ClosePreviousArea(st, log.time)
                                ELSE st.report,
                    !.current_area = log.area_name,
                    !.area_start_time = log.time,
                    !.sub_entry_start_time = NoTime]
    ELSE st

InitArea(st) ==
    IF st.current_area \notin DOMAIN st.report
    THEN [st EXCEPT !.report = Put(@, st.current_area, NewArea)]
    ELSE st

HandleStatus_noStartup(st, log) ==
    IF log.level = "STATUS"
    THEN [st EXCEPT
            !.report = IF st.sub_entry_start_time # NoTime
                       THEN [@ EXCEPT ![st.current_area].Entries =
                                Put(@, st.sub_entry_message, log.time - st.sub_entry_start_time)]
                       ELSE @,
            !.sub_entry_start_time = log.time,
            !.sub_entry_message = log.message]
    ELSE st

HandleStatus(st, log) ==
    IF log.level = "STATUS"
    THEN [st EXCEPT
            !.report = IF st.sub_entry_start_time # NoTime
                       THEN [@ EXCEPT ![st.current_area].Entries =
                                Put(@, st.sub_entry_message, log.time - st.sub_entry_start_time)]
                       ELSE [@ EXCEPT ![st.current_area].Entries =
                                Put(@, "Startup", log.time - st.area_start_time)],
            !.sub_entry_start_time = log.time,
            !.sub_entry_message = log.message]
    ELSE st

StepLog(st, log) == HandleStatus(InitArea(AreaChange(st, log)), log)

RECURSIVE Loop(_, _, _)
Loop(st, logs, i) ==
    IF i > Len(logs) THEN st ELSE Loop(StepLog(st, logs[i]), logs, i + 1)

FinalizeLastArea_noSubEntry(st, logs) ==
    IF st.current_area # None
    THEN [st.report EXCEPT ![st.current_area].Total_runtime =
             @ + (logs[Len(logs)].time - st.area_start_time)]
    ELSE st.report

FinalizeLastArea(st, logs) ==
    IF st.current_area # None
    THEN LET cur == st.current_area
             end == logs[Len(logs)].time
             r1 == [st.report EXCEPT ![cur].Total_runtime = @ + (end - st.area_start_time)]
         IN IF st.sub_entry_start_time # NoTime
            THEN [r1 EXCEPT ![cur].Entries =
                     Put(@, st.sub_entry_message, end - st.sub_entry_start_time)]
            ELSE r1
    ELSE st.report

\* The dict `report` when the with-block ends (line 399): totals and entries in seconds.
RuntimeLoop(logs) == FinalizeLastArea(Loop(InitLoop(logs), logs, 1), logs)

\* Lines 401-411: the totals are formatted; an area without entries becomes
\* f"{report[area]['Total_runtime']} minutes", the formatted total with the suffix again.
FormatReport(report) ==
    [k \in DOMAIN report |->
        IF k = TotalKey THEN report[k]
        ELSE IF DOMAIN report[k].Entries = {}
             THEN [flat |-> TRUE,
                   Total_runtime |-> [hundredths |-> Hundredths(report[k].Total_runtime),
                                      text |-> " minutes minutes"],
                   Entries |-> EmptyDict]
             ELSE [flat |-> FALSE,
                   Total_runtime |-> FormatMinutes(report[k].Total_runtime),
                   Entries |-> [e \in DOMAIN report[k].Entries |->
                                   FormatMinutes(report[k].Entries[e])]]]

RuntimeReport(logs) == FormatReport(RuntimeLoop(logs))

(***************************************************************************)
(* The run's rows as the SELECT of line 328 returns them: ORDER BY time    *)
(* fixes the order of rows with different timestamps only, so every order  *)
(* of the rows that is non-decreasing in time is a possible result.        *)
(***************************************************************************)
RunRows_anyRun(rows, etl) == rows

RunRows(rows, etl) == SelectSeq(rows, LAMBDA r : r.instance_id = etl)

RECURSIVE OrderByTime(_, _)
OrderByTime(rows, left) ==
    IF left = {} THEN {<<>>}
    ELSE UNION {{<<rows[i]>> \o rest : rest \in OrderByTime(rows, left \ {i})} :
                  i \in {i \in left : \A j \in left : rows[i].time <= rows[j].time}}

SelectRunOrderByTime(rows, etl) ==
    LET mine == RunRows(rows, etl) IN OrderByTime(mine, DOMAIN mine)

(***************************************************************************)
(* _generate_error_report                                                  *)
(***************************************************************************)
ReportedLevelSet == {reported_levels[i] : i \in DOMAIN reported_levels}

DistinctAreas(rows, etl) ==
    {rows[i].area_name : i \in {i \in DOMAIN rows : rows[i].instance_id = etl}}

AreaLogs_anyRun(rows, etl, area) ==
    SelectSeq(rows, LAMBDA r : r.area_name = area /\ r.level \in ReportedLevelSet)

AreaLogs(rows, etl, area) ==
    SelectSeq(rows, LAMBDA r : /\ r.area_name = area
                               /\ r.level \in ReportedLevelSet
                               /\ r.instance_id = etl)

RECURSIVE CountLevels(_, _, _)
CountLevels(error_counts, area_logs, i) ==
    IF i > Len(area_logs) THEN error_counts
    ELSE CountLevels([error_counts EXCEPT ![area_logs[i].level] = @ + 1], area_logs, i + 1)

AreaErrors(rows, etl, area) ==
    LET error_counts == CountLevels([l \in ReportedLevelSet |-> 0], AreaLogs(rows, etl, area), 1)
        filtered_errors == [l \in {l \in ReportedLevelSet : error_counts[l] > 0} |->
                               [Count |-> error_counts[l]]]
    IN IF DOMAIN filtered_errors = {}
       THEN [clean |-> TRUE, text |-> "No Errors", levels |-> EmptyDict]
       ELSE [clean |-> FALSE, text |-> "", levels |-> filtered_errors]

ErrorReport(rows, etl) == [a \in DistinctAreas(rows, etl) |-> AreaErrors(rows, etl, a)]

(***************************************************************************)
(* generate_reports, lines 303-317.  The attribute `report` is read, and   *)
(* the value _generate_runtime_report returned (`returned`: <<>> or        *)
(* <<report>>) was dropped at line 295.  When the attribute is set the     *)
(* file is opened with 'w', which empties it; readlines() on a write-only  *)
(* file raises, and the handler dumps the report alone.                    *)
(***************************************************************************)
WriteHistory_prepend(old, attr, returned) == returned \o old

WriteHistory(old, attr, returned) == IF attr = <<>> THEN old ELSE <<attr[1]>>

(***************************************************************************)
(* SQL_mini_wizard.get_etl_id: the first row of SELECT instance_id ORDER   *)
(* BY instance_id DESC, plus one; 1 without a row or when the read raises. *)
(***************************************************************************)
FetchOneAsc(rows) ==
    CHOOSE id \in {rows[i].instance_id : i \in DOMAIN rows} :
        \A j \in DOMAIN rows : id <= rows[j].instance_id

FetchOneDesc(rows) ==
    CHOOSE id \in {rows[i].instance_id : i \in DOMAIN rows} :
        \A j \in DOMAIN rows : rows[j].instance_id <= id

get_etl_id_asc(rows, ok) ==
    IF ~ok THEN 1 ELSE IF Len(rows) = 0 THEN 1 ELSE FetchOneAsc(rows) + 1

get_etl_id_same(rows, ok) ==
    IF ~ok THEN 1 ELSE IF Len(rows) = 0 THEN 1 ELSE FetchOneDesc(rows)

get_etl_id(rows, ok) ==
    IF ~ok THEN 1 ELSE IF Len(rows) = 0 THEN 1 ELSE FetchOneDesc(rows) + 1

(***************************************************************************)
(* The inputs of the specifications.                                       *)
(***************************************************************************)
Kind(area, level, message) == [area_name |-> area, level |-> level, message |-> message]

Kinds ==
    {Kind("A", "INFO", "m"), Kind("A", "WARNING", "m"), Kind("A", "ERROR", "m"),
     Kind("B", "STATUS", "phase1")}

KindsSeg ==
    {Kind("A", "INFO", "x"), Kind("A", "STATUS", "phase1"), Kind("A", "STATUS", "phase2"),
     Kind("B", "INFO", "y")}

KindsHist == {Kind("A", "INFO", "x")}

KindsSub ==
    {Kind("A", "INFO", "x"), Kind("A", "STATUS", "phase1"), Kind("A", "STATUS", "Startup"),
     Kind("B", "STATUS", "phase1")}

StepsSub == {1, 2}

KindsRuns == {Kind("A", "INFO", "m"), Kind("A", "ERROR", "m"), Kind("B", "STATUS", "phase1")}

Steps == {0, 1, 2}

NextSecond == {1}

Faults == {"none", "store_read", "file_write"}

NoFaults == {"none"}

LoggerNames == {"A", "B"}

Threads == {1, 2}

\* A thread outside get_logger and outside a log call, holding no logger.
IdleThread ==
    [at |-> "idle", name |-> None, etl_id |-> NoInstance, sql_handler |-> NoInstance,
     todo |-> <<>>, record |-> <<>>, entry |-> <<>>, emitted |-> <<>>]

\* Before Custom_logger() ran: no attribute of the singleton is set.
NoCustomLogger == [initialized |-> FALSE, etl_id |-> NoInstance]

Init ==
    /\ store = <<>>
    /\ wizard = NoInstance
    /\ pc = "none"
    /\ report_runtime_json = <<>>
    /\ report_errors_json = <<>>
    /\ report_json = <<>>
    /\ self_report = <<>>
    /\ read_logs = <<>>
    /\ fault = "none"
    /\ outcome = "none"
    /\ wrote = {}
    /\ etl_read_failed = FALSE
    /\ produced = <<>>
    /\ custom_logger = NoCustomLogger
    /\ atexit_registered = 0
    /\ finalize_runs = 0
    /\ handlers = [n \in LoggerNames |-> <<>>]
    /\ thread = [t \in Threads |-> IdleThread]

(***************************************************************************)
(* A process starts and its main thread calls get_logger for each logger   *)
(* name, one call after the other: the first CustomSqlHandler() builds the *)
(* wizard (create_table, get_etl_id), every handler copies its etl_id, and *)
(* Custom_logger() is constructed once, without the attribute `report`,    *)
(* and registers finalize_logs.  No                                        *)
(* further process starts once maxReports runtime reports were produced    *)
(* (a read failure hands out run id 1 again, so a run without new rows can *)
(* still produce a report).                                                *)
(***************************************************************************)
StartProcess(readOutcomes, maxReports) ==
    /\ pc \in {"none", "exited"}
    /\ Len(produced) < maxReports
    /\ \E ok \in readOutcomes :
          /\ wizard' = get_etl_id(store, ok)
          /\ etl_read_failed' = ~ok
    /\ pc' = "running"
    /\ self_report' = <<>>
    /\ read_logs' = <<>>
    /\ fault' = "none"
    /\ outcome' = "none"
    /\ wrote' = {}
    /\ custom_logger' = [initialized |-> TRUE, etl_id |-> wizard']
    /\ atexit_registered' = 1
    /\ finalize_runs' = 0
    /\ handlers' = [n \in LoggerNames |-> <<wizard'>>]
    /\ thread' = [t \in Threads |-> IdleThread]
    /\ UNCHANGED <<store, report_runtime_json, report_errors_json, report_json, produced>>

(***************************************************************************)
(* CustomSqlHandler.emit: one row with the handler's etl_id and now().     *)
(* Time is counted from the first row of the store, and the clock does    *)
(* not run backwards: now() is the newest row's time plus `step` seconds.  *)
(***************************************************************************)
LastTime(rows) == IF Len(rows) = 0 THEN 0 ELSE rows[Len(rows)].time

emit(kinds, steps, maxRows, maxRunRows) ==
    /\ pc = "running"
    /\ Len(store) < maxRows
    /\ Len(RunRows(store, wizard)) < maxRunRows
    /\ \E k \in kinds, step \in (IF Len(store) = 0 THEN {0} ELSE steps) :
          store' = Append(store, Row(wizard, LastTime(store) + step,
                                     k.area_name, k.level, k.message))
    /\ UNCHANGED <<wizard, pc, report_runtime_json, report_errors_json, report_json,
                   self_report, read_logs, fault, outcome, wrote, etl_read_failed, produced,
                   finalize_runs>>
    /\ UNCHANGED loggerVars

(***************************************************************************)
(* finalize_logs, run by atexit when the process ends: generate_reports.   *)
(* atexit calls it once per registration, one call after the other; the    *)
(* rows it reads are those of Custom_logger.etl_id.                        *)
(* `f` is the state of the environment during the call: "store_read" when  *)
(* the store cannot be read (conn.execute raises), "file_write" when the   *)
(* report files cannot be opened for writing (open raises).  Neither error *)
(* is a ValueError, so line 297 does not catch it.                         *)
(***************************************************************************)
RuntimeStep(f, logs) ==
    IF f = "store_read"
    THEN [raised |-> TRUE, logs |-> <<>>, returned |-> <<>>]
    ELSE IF Len(logs) = 0
    THEN [raised |-> FALSE, logs |-> logs, returned |-> <<>>]
    ELSE IF f = "file_write"
    THEN [raised |-> TRUE, logs |-> logs, returned |-> <<>>]
    ELSE [raised |-> FALSE, logs |-> logs, returned |-> <<RuntimeReport(logs)>>]

ErrorStep(f, rows, etl) ==
    IF f \in {"store_read", "file_write"}
    THEN [raised |-> TRUE, returned |-> <<>>]
    ELSE [raised |-> FALSE, returned |-> <<ErrorReport(rows, etl)>>]

FinalizeResult(f, logs, rows, etl, history_file, attr) ==
    LET rt == RuntimeStep(f, logs)
        er == IF rt.raised THEN [raised |-> TRUE, returned |-> <<>>]
              ELSE ErrorStep(f, rows, etl)
    IN [logs |-> rt.logs,
        runtime |-> rt.returned,
        errors |-> er.returned,
        history |-> IF er.raised THEN history_file
                    ELSE WriteHistory(history_file, attr, rt.returned),
        history_written |-> ~er.raised /\ attr # <<>>,
        raised |-> er.raised]

finalize_logs(faults) ==
    /\ pc \in {"running", "exiting"}
    /\ finalize_runs < atexit_registered
    /\ \E f \in faults, logs \in SelectRunOrderByTime(store, custom_logger.etl_id) :
          \E r \in {FinalizeResult(f, logs, store, custom_logger.etl_id,
                                   report_json, self_report)} :
             /\ read_logs' = r.logs
             /\ fault' = f
             /\ report_runtime_json' =
                   IF r.runtime # <<>> THEN r.runtime ELSE report_runtime_json
             /\ report_errors_json' =
                   IF r.errors # <<>> THEN r.errors ELSE report_errors_json
             /\ report_json' = r.history
             /\ produced' = r.runtime \o produced
             /\ wrote' = (IF r.runtime # <<>> THEN {"report_runtime.json"} ELSE {})
                           \cup (IF r.errors # <<>> THEN {"report_errors.json"} ELSE {})
                           \cup (IF r.history_written THEN {"report.json"} ELSE {})
             /\ outcome' = IF r.raised THEN "raised" ELSE "returned"
    /\ finalize_runs' = finalize_runs + 1
    /\ pc' = IF finalize_runs' = atexit_registered THEN "exited" ELSE "exiting"
    /\ UNCHANGED <<store, wizard, self_report, etl_read_failed>>
    /\ UNCHANGED loggerVars

(***************************************************************************)
(* The same process at the grain of its threads.  get_logger is a sequence *)
(* of steps of the calling thread, each reading or writing shared state    *)
(* once: logger.handlers (line 75), SQL_mini_wizard._instance (lines 143   *)
(* and 149), the Custom_logger singleton (lines 261 and 264-272), and      *)
(* logger.handlers again (lines 123-129).  No lock is held across them.    *)
(***************************************************************************)
ThreadUnchanged ==
    UNCHANGED <<pc, report_runtime_json, report_errors_json, report_json, self_report,
                read_logs, fault, outcome, wrote, produced, finalize_runs>>

\* The host process starts; no logger exists yet.
StartHost ==
    /\ pc = "none"
    /\ pc' = "running"
    /\ UNCHANGED <<store, wizard, report_runtime_json, report_errors_json, report_json,
                   self_report, read_logs, fault, outcome, wrote, etl_read_failed, produced,
                   finalize_runs>>
    /\ UNCHANGED loggerVars

\* Lines 74-75: the logger of that name is set up only when it has no handler yet.
get_logger(t, names) ==
    /\ pc = "running"
    /\ thread[t].at = "idle"
    /\ \E name \in names :
          thread' = [thread EXCEPT ![t].name = name,
                                   ![t].at = IF handlers[name] = <<>>
                                             THEN "CustomSqlHandler" ELSE "idle"]
    /\ UNCHANGED <<store, wizard, etl_read_failed, custom_logger, atexit_registered, handlers>>
    /\ ThreadUnchanged

\* Lines 92, 232, 143: CustomSqlHandler() asks for the wizard; an existing one is
\* returned (line 154) and its etl_id copied (line 233).
get_instance(t) ==
    /\ pc = "running"
    /\ thread[t].at = "CustomSqlHandler"
    /\ thread' = IF wizard # NoInstance
                 THEN [thread EXCEPT ![t].sql_handler = wizard, ![t].at = "Custom_logger"]
                 ELSE [thread EXCEPT ![t].at = "get_etl_id"]
    /\ UNCHANGED <<store, wizard, etl_read_failed, custom_logger, atexit_registered, handlers>>
    /\ ThreadUnchanged

\* Lines 144-148: the engine and the table are created and the next run id is read.
read_etl_id(t, readOutcomes) ==
    /\ pc = "running"
    /\ thread[t].at = "get_etl_id"
    /\ \E ok \in readOutcomes :
          /\ thread' = [thread EXCEPT ![t].etl_id = get_etl_id(store, ok), ![t].at = "assign"]
          /\ etl_read_failed' = ~ok
    /\ UNCHANGED <<store, wizard, custom_logger, atexit_registered, handlers>>
    /\ ThreadUnchanged

\* Lines 149-154, 233: _instance is assigned and the handler copies its etl_id.
set_instance(t) ==
    /\ pc = "running"
    /\ thread[t].at = "assign"
    /\ wizard' = thread[t].etl_id
    /\ thread' = [thread EXCEPT ![t].sql_handler = wizard', ![t].at = "Custom_logger"]
    /\ UNCHANGED <<store, etl_read_failed, custom_logger, atexit_registered, handlers>>
    /\ ThreadUnchanged

Custom_logger_new_noCheck(t) ==
    /\ pc = "running"
    /\ thread[t].at = "Custom_logger"
    /\ thread' = [thread EXCEPT ![t].at = "__init__"]
    /\ UNCHANGED <<store, wizard, etl_read_failed, custom_logger, atexit_registered, handlers>>
    /\ ThreadUnchanged

\* Lines 119, 29-33, 260-262: Custom_logger() yields the singleton, and __init__
\* returns at once when the attribute initialized is set.
Custom_logger_new(t) ==
    /\ pc = "running"
    /\ thread[t].at = "Custom_logger"
    /\ thread' = [thread EXCEPT ![t].at = IF custom_logger.initialized
                                          THEN "addHandler" ELSE "__init__"]
    /\ UNCHANGED <<store, wizard, etl_read_failed, custom_logger, atexit_registered, handlers>>
    /\ ThreadUnchanged

\* Lines 264-272: the wizard's etl_id is copied, finalize_logs is registered and
\* initialized is set.
Custom_logger_init(t) ==
    /\ pc = "running"
    /\ thread[t].at = "__init__"
    /\ custom_logger' = [initialized |-> TRUE, etl_id |-> wizard]
    /\ atexit_registered' = atexit_registered + 1
    /\ thread' = [thread EXCEPT ![t].at = "addHandler"]
    /\ UNCHANGED <<store, wizard, etl_read_failed, handlers>>
    /\ ThreadUnchanged

\* Lines 123-129: the handlers are added to the logger, which get_logger returns.
addHandler(t) ==
    /\ pc = "running"
    /\ thread[t].at = "addHandler"
    /\ handlers' = [handlers EXCEPT ![thread[t].name] = Append(@, thread[t].sql_handler)]
    /\ thread' = [thread EXCEPT ![t].at = "idle"]
    /\ UNCHANGED <<store, wizard, etl_read_failed, custom_logger, atexit_registered>>
    /\ ThreadUnchanged

(***************************************************************************)
(* A log call on the thread's logger runs emit of each CustomSqlHandler of *)
(* that logger in turn.  emit builds the LogEntry with the handler's       *)
(* etl_id and now() in a session of its own (lines 239-247) and commits it *)
(* (lines 248-249); the commit is the store's transaction and adds the     *)
(* whole row.  now() is a second after the newest time taken so far.       *)
(***************************************************************************)
RECURSIVE RowsToCome(_)
RowsToCome(ts) ==
    IF ts = {} THEN 0
    ELSE LET t == CHOOSE x \in ts : TRUE
         IN Len(thread[t].todo) + RowsToCome(ts \ {t})

RECURSIVE NewestTime(_, _)
NewestTime(rows, ts) ==
    IF ts # {}
    THEN LET t == CHOOSE x \in ts : TRUE
             rest == NewestTime(rows, ts \ {t})
         IN IF thread[t].entry # <<>> /\ thread[t].entry[1].time > rest
            THEN thread[t].entry[1].time ELSE rest
    ELSE IF rows = <<>> THEN 0
    ELSE LET rest == NewestTime(SubSeq(rows, 1, Len(rows) - 1), {})
         IN IF rows[Len(rows)].time > rest THEN rows[Len(rows)].time ELSE rest

log(t, kinds, maxRows) ==
    /\ pc = "running"
    /\ thread[t].at = "idle"
    /\ thread[t].name # None
    /\ handlers[thread[t].name] # <<>>
    /\ Len(store) + RowsToCome(Threads) + Len(handlers[thread[t].name]) <= maxRows
    /\ \E k \in {k \in kinds : k.area_name = thread[t].name} :
          thread' = [thread EXCEPT ![t].record = <<k>>,
                                   ![t].todo = handlers[thread[t].name],
                                   ![t].at = "emit"]
    /\ UNCHANGED <<store, wizard, etl_read_failed, custom_logger, atexit_registered, handlers>>
    /\ ThreadUnchanged

emit_add(t, steps) ==
    /\ pc = "running"
    /\ thread[t].at = "emit"
    /\ \E step \in steps :
          thread' = [thread EXCEPT
                        ![t].entry = <<Row(Head(thread[t].todo),
                                           NewestTime(store, Threads) + step,
                                           thread[t].record[1].area_name,
                                           thread[t].record[1].level,
                                           thread[t].record[1].message)>>,
                        ![t].at = "commit"]
    /\ UNCHANGED <<store, wizard, etl_read_failed, custom_logger, atexit_registered, handlers>>
    /\ ThreadUnchanged

emit_commit_unflushed(t) ==
    /\ pc = "running"
    /\ thread[t].at = "commit"
    /\ store' = store
    /\ thread' = [thread EXCEPT ![t].emitted = Append(@, thread[t].entry[1]),
                                ![t].entry = <<>>,
                                ![t].todo = Tail(@),
                                ![t].at = IF Tail(thread[t].todo) = <<>>
                                          THEN "idle" ELSE "emit"]
    /\ UNCHANGED <<wizard, etl_read_failed, custom_logger, atexit_registered, handlers>>
    /\ ThreadUnchanged

emit_commit_overlapped(t) ==
    /\ pc = "running"
    /\ thread[t].at = "commit"
    /\ store' = IF \E u \in Threads \ {t} : thread[u].at = "commit"
                THEN store ELSE Append(store, thread[t].entry[1])
    /\ thread' = [thread EXCEPT ![t].emitted = Append(@, thread[t].entry[1]),
                                ![t].entry = <<>>,
                                ![t].todo = Tail(@),
                                ![t].at = IF Tail(thread[t].todo) = <<>>
                                          THEN "idle" ELSE "emit"]
    /\ UNCHANGED <<wizard, etl_read_failed, custom_logger, atexit_registered, handlers>>
    /\ ThreadUnchanged

emit_commit(t) ==
    /\ pc = "running"
    /\ thread[t].at = "commit"
    /\ store' = Append(store, thread[t].entry[1])
    /\ thread' = [thread EXCEPT ![t].emitted = Append(@, thread[t].entry[1]),
                                ![t].entry = <<>>,
                                ![t].todo = Tail(@),
                                ![t].at = IF Tail(thread[t].todo) = <<>>
                                          THEN "idle" ELSE "emit"]
    /\ UNCHANGED <<wizard, etl_read_failed, custom_logger, atexit_registered, handlers>>
    /\ ThreadUnchanged

\* The process ends: its threads have finished, and atexit runs what was registered.
ExitProcess ==
    /\ \A t \in Threads : thread[t].at = "idle"
    /\ finalize_logs(NoFaults)

KindsThr == {Kind("A", "INFO", "x"), Kind("B", "INFO", "x")}

ThreadStep(t, kinds, maxRows) ==
    \/ get_logger(t, LoggerNames)
    \/ get_instance(t)
    \/ read_etl_id(t, {TRUE})
    \/ set_instance(t)
    \/ Custom_logger_new(t)
    \/ Custom_logger_init(t)
    \/ addHandler(t)
    \/ log(t, kinds, maxRows)
    \/ emit_add(t, NextSecond)
    \/ emit_commit(t)

\* One process whose threads create loggers and log concurrently, without I/O failures.
NextThr ==
    \/ StartHost
    \/ \E t \in Threads : ThreadStep(t, KindsThr, MaxRowsThr)
    \/ ExitProcess

SpecThr == Init /\ [][NextThr]_vars

\* One process whose main thread alone creates loggers and logs, one call after the other.
MainThread == 1

NextMain ==
    \/ StartHost
    \/ ThreadStep(MainThread, Kinds, MaxRows)
    \/ ExitProcess

SpecMain == Init /\ [][NextMain]_vars

Next ==
    \/ StartProcess(BOOLEAN, MaxRows)
    \/ emit(Kinds, NextSecond, MaxRows, MaxRows)
    \/ finalize_logs(Faults)

Spec == Init /\ [][Next]_vars

\* One process without I/O failures, with longer runs.
FirstProcess ==
    /\ pc = "none"
    /\ StartProcess({TRUE}, 1)

NextSeg ==
    \/ FirstProcess
    \/ emit(KindsSeg, Steps, MaxRowsSeg, MaxRowsSeg)
    \/ finalize_logs(NoFaults)

SpecSeg == Init /\ [][NextSeg]_vars

\* Many successive processes without I/O failures, each recording at most one event.
NextHist ==
    \/ StartProcess({TRUE}, MaxRowsHist)
    \/ emit(KindsHist, NextSecond, MaxRowsHist, 1)
    \/ finalize_logs(NoFaults)

SpecHist == Init /\ [][NextHist]_vars

\* One process without I/O failures whose areas reappear and whose STATUS messages repeat.
NextSub ==
    \/ FirstProcess
    \/ emit(KindsSub, StepsSub, MaxRowsSub, MaxRowsSub)
    \/ finalize_logs(NoFaults)

SpecSub == Init /\ [][NextSub]_vars

\* Successive processes on one store without I/O failures.
NextRuns ==
    \/ StartProcess({TRUE}, MaxRowsRuns)
    \/ emit(KindsRuns, NextSecond, MaxRowsRuns, MaxRowsRuns)
    \/ finalize_logs(NoFaults)

SpecRuns == Init /\ [][NextRuns]_vars

(***************************************************************************)
(* Helpers of the properties.                                              *)
(***************************************************************************)
AreasOf(report) == DOMAIN report \ {TotalKey}

RECURSIVE SumTotals(_, _)
SumTotals(report, areas) ==
    IF areas = {} THEN 0
    ELSE LET a == CHOOSE x \in areas : TRUE
         IN report[a].Total_runtime + SumTotals(report, areas \ {a})

RECURSIVE MaxInstanceId(_, _)
MaxInstanceId(rows, i) ==
    IF i > Len(rows) THEN 0
    ELSE LET rest == MaxInstanceId(rows, i + 1)
         IN IF rows[i].instance_id > rest THEN rows[i].instance_id ELSE rest

RunIndices == {i \in DOMAIN store : store[i].instance_id = wizard}

NumberOf(area, level) ==
    Cardinality({i \in RunIndices : store[i].area_name = area /\ store[i].level = level})

IsScenario(logs) ==
    /\ Len(logs) = 4
    /\ [i \in 1..4 |-> <<logs[i].area_name, logs[i].level, logs[i].message>>]
          = << <<"A", "INFO", "x">>, <<"A", "STATUS", "phase1">>,
               <<"A", "STATUS", "phase2">>, <<"B", "INFO", "y">> >>
    /\ \A i \in 1..3 : logs[i].time < logs[i + 1].time

Finished == pc = "exited" /\ fault = "none"

(***************************************************************************)
(* C1: whenever the finalizer read at least two rows, the area totals of   *)
(* the report, before they are formatted, add up to the last timestamp     *)
(* minus the first.                                                        *)
(***************************************************************************)
C1_AreaTotalsSumToTotalRuntime ==
    Len(read_logs) >= 2 =>
        LET report == RuntimeLoop(read_logs)
        IN SumTotals(report, AreasOf(report))
              = read_logs[Len(read_logs)].time - read_logs[1].time

\* An area reappears after another one, with a STATUS event, over a positive time.
C1_Witness ==
    /\ Finished
    /\ Len(read_logs) >= 3
    /\ \E i, j, k \in DOMAIN read_logs :
          /\ i < j /\ j < k
          /\ read_logs[i].area_name = read_logs[k].area_name
          /\ read_logs[i].area_name # read_logs[j].area_name
    /\ \E i \in DOMAIN read_logs : read_logs[i].level = "STATUS"
    /\ read_logs[Len(read_logs)].time > read_logs[1].time

(***************************************************************************)
(* C2 as stated: for [(A,INFO,x,t0), (A,STATUS,phase1,t1),                 *)
(* (A,STATUS,phase2,t2), (B,INFO,y,t3)], t0<t1<t2<t3, the written report   *)
(* gives A the total t3-t0 and exactly the entries Startup: t1-t0 and      *)
(* phase1: t2-t1, and gives B the flat value 0.                            *)
(***************************************************************************)
C2_ScenarioAsStated ==
    (Finished /\ IsScenario(read_logs)) =>
        LET doc == report_runtime_json[1]
            t == [i \in 1..4 |-> read_logs[i].time]
        IN /\ ~doc["A"].flat
           /\ doc["A"].Total_runtime = FormatMinutes(t[4] - t[1])
           /\ DOMAIN doc["A"].Entries = {"Startup", "phase1"}
           /\ doc["A"].Entries["Startup"] = FormatMinutes(t[2] - t[1])
           /\ doc["A"].Entries["phase1"] = FormatMinutes(t[3] - t[2])
           /\ doc["B"].flat
           /\ doc["B"].Total_runtime.hundredths = 0

(***************************************************************************)
(* C2 amended: in that scenario the written report gives A the total       *)
(* t3-t0 and exactly the entries Startup: t1-t0, phase1: t2-t1 and         *)
(* phase2: t3-t2 (the area change closes the open sub-phase), and gives B  *)
(* the flat value 0.                                                       *)
(***************************************************************************)
C2_ScenarioReport ==
    (Finished /\ IsScenario(read_logs)) =>
        LET doc == report_runtime_json[1]
            t == [i \in 1..4 |-> read_logs[i].time]
        IN /\ DOMAIN doc = {TotalKey, "A", "B"}
           /\ doc[TotalKey] = FormatMinutes(t[4] - t[1])
           /\ ~doc["A"].flat
           /\ doc["A"].Total_runtime = FormatMinutes(t[4] - t[1])
           /\ DOMAIN doc["A"].Entries = {"Startup", "phase1", "phase2"}
           /\ doc["A"].Entries["Startup"] = FormatMinutes(t[2] - t[1])
           /\ doc["A"].Entries["phase1"] = FormatMinutes(t[3] - t[2])
           /\ doc["A"].Entries["phase2"] = FormatMinutes(t[4] - t[3])
           /\ doc["B"].flat
           /\ doc["B"].Total_runtime.hundredths = 0

C2_Witness == Finished /\ IsScenario(read_logs) /\ "report_runtime.json" \in wrote

(***************************************************************************)
(* C3: the written error report has exactly the areas with a row of the    *)
(* run; an area maps to {L: {Count: n}} for exactly the reported levels L  *)
(* with n > 0 rows of the run in that area, and to "No Errors" when there  *)
(* is none.                                                                *)
(***************************************************************************)
C3_ErrorReportCounts ==
    "report_errors.json" \in wrote =>
        LET doc == report_errors_json[1]
        IN /\ DOMAIN doc = {store[i].area_name : i \in RunIndices}
           /\ \A a \in DOMAIN doc :
                LET counted == {l \in ReportedLevelSet : NumberOf(a, l) > 0}
                IN IF counted = {}
                   THEN doc[a].clean /\ doc[a].text = "No Errors"
                   ELSE /\ ~doc[a].clean
                        /\ DOMAIN doc[a].levels = counted
                        /\ \A l \in counted : doc[a].levels[l] = [Count |-> NumberOf(a, l)]

\* One area with a count of two, another area with STATUS rows only.
C3_Witness ==
    /\ "report_errors.json" \in wrote
    /\ \E a, b \in DOMAIN report_errors_json[1] :
          /\ report_errors_json[1][a].clean
          /\ NumberOf(a, "STATUS") > 0
          /\ ~report_errors_json[1][b].clean
          /\ \E l \in DOMAIN report_errors_json[1][b].levels :
                report_errors_json[1][b].levels[l].Count = 2

(***************************************************************************)
(* C4 as stated: when the run has no row and no I/O operation fails,       *)
(* finalization writes neither the runtime document nor the error          *)
(* document, and returns.                                                  *)
(***************************************************************************)
C4_NoDocumentWithoutEvents ==
    (Finished /\ RunIndices = {}) =>
        /\ "report_runtime.json" \notin wrote
        /\ "report_errors.json" \notin wrote
        /\ outcome = "returned"

(***************************************************************************)
(* C5 as stated: when the run has exactly one row and no I/O operation     *)
(* fails, no runtime report is returned or written.                        *)
(***************************************************************************)
C5_NoRuntimeReportForOneEvent ==
    (Finished /\ Cardinality(RunIndices) = 1) =>
        "report_runtime.json" \notin wrote

(***************************************************************************)
(* C6 as stated: finalize_logs always returns normally, also when a store  *)
(* read or a document write fails.                                         *)
(***************************************************************************)
C6_FinalizeNeverRaises == pc = "exited" => outcome = "returned"

(***************************************************************************)
(* C7 as stated: after a finalization that completed, the store holds no   *)
(* row with the run's id.                                                  *)
(***************************************************************************)
C7_RunPurged == (pc = "exited" /\ outcome = "returned") => RunIndices = {}

(***************************************************************************)
(* C8 as stated: after k finalizations that each produced a runtime        *)
(* report, the rolling history holds the min(k, cap) newest reports,       *)
(* newest first.                                                           *)
(***************************************************************************)
C8_RollingHistory ==
    Len(produced) >= 1 =>
        report_json = SubSeq(produced, 1,
                             IF Len(produced) < HistoryCap THEN Len(produced) ELSE HistoryCap)

(***************************************************************************)
(* C9: the rolling history never holds more than HistoryCap entries.       *)
(***************************************************************************)
C9_HistoryWithinCap == Len(report_json) <= HistoryCap

\* More finalizations produced a report than the cap allows entries.
C9_Witness == pc = "exited" /\ Len(produced) > HistoryCap

(***************************************************************************)
(* C10: the run id a starting process gets is 1 when the read fails, 1     *)
(* when the store is empty, and otherwise the largest instance_id of any   *)
(* row in the store plus one.                                              *)
(***************************************************************************)
C10_NextRunId ==
    [][(pc # "running" /\ pc' = "running") =>
          wizard' = IF etl_read_failed' \/ Len(store) = 0 THEN 1
                    ELSE MaxInstanceId(store, 1) + 1]_vars

\* A process started on a store holding rows of runs 1 and 2 and was given run id 3.
C10_Witness ==
    /\ pc = "running"
    /\ ~etl_read_failed
    /\ wizard = 3
    /\ RunIndices = {}
    /\ \E i, j \in DOMAIN store : store[i].instance_id = 1 /\ store[j].instance_id = 2

(***************************************************************************)
(* C11 as stated: a process that starts after another one has exited is    *)
(* given a run id strictly greater than the run id of that earlier         *)
(* process, whatever number of events the earlier process recorded.        *)
(***************************************************************************)
C11_RunIdsStrictlyIncrease ==
    [][(pc = "exited" /\ pc' = "running") => wizard' > wizard]_vars

(***************************************************************************)
(* C11 amended: a process whose read of the store succeeds at startup is   *)
(* given a run id strictly greater than the run id of every row in the     *)
(* store, that is, of every earlier process that recorded at least one     *)
(* event.                                                                  *)
(***************************************************************************)
C11_RunIdAboveRecordedRuns ==
    [][(pc # "running" /\ pc' = "running" /\ ~etl_read_failed') =>
          \A i \in DOMAIN store : wizard' > store[i].instance_id]_vars

\* A process starts on a store whose rows are all of run 1, after that run's report was
\* produced, and is given 2.
C11_Witness ==
    /\ pc = "running"
    /\ ~etl_read_failed
    /\ wizard = 2
    /\ Len(produced) = 1
    /\ \A i \in DOMAIN store : store[i].instance_id = 1
    /\ Len(store) >= 1

(***************************************************************************)
(* The stores that agree with `rows` on the rows of run `etl` and differ   *)
(* in the rows of other runs: each such row is dropped, or kept with any   *)
(* area, level and message and with its time or the second after it.       *)
(***************************************************************************)
OtherRunRow(row, etl) ==
    IF row.instance_id = etl THEN {<<row>>}
    ELSE {<<>>} \cup {<<Row(row.instance_id, row.time + d, k.area_name, k.level, k.message)>> :
                         k \in KindsRuns, d \in {0, 1}}

RECURSIVE StoresAgreeingOn(_, _, _)
StoresAgreeingOn(rows, etl, i) ==
    IF i > Len(rows) THEN {<<>>}
    ELSE {r \o rest : r \in OtherRunRow(rows[i], etl),
                      rest \in StoresAgreeingOn(rows, etl, i + 1)}

(***************************************************************************)
(* C12: the runtime report and the error report written for the run are    *)
(* the reports of every store that agrees with the store on the rows of    *)
(* that run, whatever rows of other runs it holds.                         *)
(***************************************************************************)
C12_ReportsOfRunRowsOnly ==
    (Finished /\ {"report_runtime.json", "report_errors.json"} \subseteq wrote) =>
        \A other \in StoresAgreeingOn(store, custom_logger.etl_id, 1) :
            /\ report_errors_json[1] = ErrorReport(other, custom_logger.etl_id)
            /\ \E logs \in SelectRunOrderByTime(other, custom_logger.etl_id) :
                  /\ logs = read_logs
                  /\ report_runtime_json[1] = RuntimeReport(logs)

\* The run has a row in an area where an earlier run has a row of a reported level.
C12_Witness ==
    /\ Finished
    /\ {"report_runtime.json", "report_errors.json"} \subseteq wrote
    /\ \E i, j \in DOMAIN store :
          /\ store[i].instance_id # custom_logger.etl_id
          /\ store[i].level \in ReportedLevelSet
          /\ store[j].instance_id = custom_logger.etl_id
          /\ store[j].area_name = store[i].area_name

(***************************************************************************)
(* Helpers of the properties of the threaded process.                      *)
(***************************************************************************)
AllReturned == \A t \in Threads : thread[t].at = "idle"

EmittedBy(t) == {thread[t].emitted[i] : i \in DOMAIN thread[t].emitted}

Emitted == UNION {EmittedBy(t) : t \in Threads}

RECURSIVE CallsReturned(_)
CallsReturned(ts) ==
    IF ts = {} THEN 0
    ELSE LET t == CHOOSE x \in ts : TRUE
         IN Len(thread[t].emitted) + CallsReturned(ts \ {t})

(***************************************************************************)
(* C13: when finalization has run without an I/O failure, every row whose  *)
(* emit call returned before it began, written under the run id the        *)
(* finalizer reports on, is in the sequence _generate_runtime_report read, *)
(* and its area is in the error report.                                    *)
(***************************************************************************)
C13_ReturnedEventsAreRead ==
    (pc \in {"exiting", "exited"} /\ fault = "none") =>
        \A e \in Emitted :
            e.instance_id = custom_logger.etl_id =>
                /\ \E j \in DOMAIN read_logs : read_logs[j] = e
                /\ "report_errors.json" \in wrote
                /\ e.area_name \in DOMAIN report_errors_json[1]

\* Both threads logged under the finalizer's run id before the process ended.
C13_Witness ==
    /\ pc = "exited"
    /\ fault = "none"
    /\ \A t \in Threads :
          \E e \in EmittedBy(t) : e.instance_id = custom_logger.etl_id

(***************************************************************************)
(* C14: once every emit call of the process's threads has returned, the    *)
(* store holds exactly one row per call, with every column the call set.   *)
(***************************************************************************)
C14_OneRowPerEmitCall ==
    AllReturned =>
        /\ Len(store) = CallsReturned(Threads)
        /\ \A e \in Emitted : \E i \in DOMAIN store : store[i] = e
        /\ \A i \in DOMAIN store :
              /\ DOMAIN store[i] = {"instance_id", "time", "area_name", "level", "message"}
              /\ store[i] \in Emitted

\* Two emit calls of different threads overlapped: the row built first was committed last.
C14_Witness ==
    /\ AllReturned
    /\ \E t, u \in Threads : t # u /\ EmittedBy(t) # {} /\ EmittedBy(u) # {}
    /\ \E i, j \in DOMAIN store : i < j /\ store[i].time > store[j].time

C20_OneRunIdPerProcess ==
    /\ \A n, o \in LoggerNames :
          \A i \in DOMAIN handlers[n], j \in DOMAIN handlers[o] : handlers[n][i] = handlers[o][j]
    /\ custom_logger.initialized =>
          \A n \in LoggerNames :
             \A i \in DOMAIN handlers[n] : handlers[n][i] = custom_logger.etl_id
    /\ \A i, j \in DOMAIN store : store[i].instance_id = store[j].instance_id

SameSegment(logs, i, j) ==
    \A k \in (IF i < j THEN i..j ELSE j..i) : logs[k].area_name = logs[i].area_name

SegLo(logs, i) == CHOOSE lo \in 1..i :
    /\ SameSegment(logs, lo, i)
    /\ \A k \in 1..i : SameSegment(logs, k, i) => lo <= k

SegHi(logs, i) == CHOOSE hi \in i..Len(logs) :
    /\ SameSegment(logs, i, hi)
    /\ \A k \in i..Len(logs) : SameSegment(logs, i, k) => k <= hi

IsStatus(logs, i) == logs[i].level = "STATUS"

StatusIn(logs, lo, hi) == {j \in lo..hi : IsStatus(logs, j)}

Least(S) == CHOOSE x \in S : \A y \in S : x <= y

ClosingTime(logs, i) ==
    IF SegHi(logs, i) < Len(logs) THEN logs[SegHi(logs, i) + 1].time ELSE logs[Len(logs)].time

\* The time at which the sub-phase opened by the STATUS row i ends.
SubPhaseEnd(logs, i) ==
    LET later == StatusIn(logs, i + 1, SegHi(logs, i))
    IN IF later # {} THEN logs[Least(later)].time ELSE ClosingTime(logs, i)

FirstStatus(logs, i) == Least(StatusIn(logs, SegLo(logs, i), SegHi(logs, i)))

DistinctStatusMessages(logs, i) ==
    LET st == StatusIn(logs, SegLo(logs, i), SegHi(logs, i))
    IN /\ \A j, k \in st : j # k => logs[j].message # logs[k].message
       /\ \A j \in st : logs[j].message # "Startup"

\* A later segment of the area of row i records an entry called `name`.
RecordedLater(logs, i, name) ==
    \E j \in (SegHi(logs, i) + 1)..Len(logs) :
        /\ logs[j].area_name = logs[i].area_name
        /\ IsStatus(logs, j)
        /\ (name = "Startup" \/ logs[j].message = name)

ReportWritten == Finished /\ "report_runtime.json" \in wrote

LoopBefore(logs, i) == Loop(InitLoop(logs), SubSeq(logs, 1, i - 1), 1)

LoopAfter(logs, i) == StepLog(LoopBefore(logs, i), logs[i])

AreaChangingStatus(logs, i) ==
    /\ i > 1
    /\ IsStatus(logs, i)
    /\ logs[i].area_name # logs[i - 1].area_name

(***************************************************************************)
(* C17: a STATUS row whose area differs from the previous row's area, in   *)
(* one step of the loop, adds to the previous area's total the time since  *)
(* that area started, records the previous area's open sub-phase as ending *)
(* at the row's time, starts the new area at the row's time, records       *)
(* "Startup" with length zero for the new area, and opens the sub-phase    *)
(* named by the row's message at the row's time.                           *)
(***************************************************************************)
C17_StatusOnAreaChange ==
    Finished =>
        \A i \in DOMAIN read_logs :
            AreaChangingStatus(read_logs, i) =>
                LET before == LoopBefore(read_logs, i)
                    after == LoopAfter(read_logs, i)
                    row == read_logs[i]
                    prev == read_logs[i - 1].area_name
                IN /\ before.current_area = prev
                   /\ after.report[prev].Total_runtime =
                         before.report[prev].Total_runtime + (row.time - before.area_start_time)
                   /\ before.sub_entry_start_time # NoTime =>
                         after.report[prev].Entries[before.sub_entry_message] =
                            row.time - before.sub_entry_start_time
                   /\ after.current_area = row.area_name
                   /\ after.area_start_time = row.time
                   /\ after.report[row.area_name].Entries["Startup"] = 0
                   /\ after.sub_entry_start_time = row.time
                   /\ after.sub_entry_message = row.message

\* The previous area has run for a positive time with a sub-phase open for a positive time.
C17_Witness ==
    /\ Finished
    /\ \E i \in DOMAIN read_logs :
          /\ AreaChangingStatus(read_logs, i)
          /\ LoopBefore(read_logs, i).sub_entry_start_time # NoTime
          /\ LoopBefore(read_logs, i).sub_entry_start_time < read_logs[i].time
          /\ LoopBefore(read_logs, i).area_start_time
                < LoopBefore(read_logs, i).sub_entry_start_time

(***************************************************************************)
(* The intervals recorded under `name` in `area` while the loop runs over  *)
(* logs, each with the row at which it is recorded (Len(logs) + 1 for the  *)
(* close after the loop): the sub-phase of a STATUS row with that message  *)
(* is recorded at the next STATUS row of its segment or when its segment   *)
(* closes, and a segment's "Startup" at its first STATUS row.              *)
(***************************************************************************)
RecordedAt(logs, i) ==
    LET later == StatusIn(logs, i + 1, SegHi(logs, i))
    IN IF later # {} THEN Least(later) ELSE SegHi(logs, i) + 1

Recordings(logs, area, name) ==
    {[at |-> RecordedAt(logs, i), secs |-> SubPhaseEnd(logs, i) - logs[i].time] :
        i \in {i \in DOMAIN logs : /\ logs[i].area_name = area
                                   /\ IsStatus(logs, i)
                                   /\ logs[i].message = name}}
    \cup
    {[at |-> f, secs |-> logs[f].time - logs[SegLo(logs, f)].time] :
        f \in {f \in DOMAIN logs : /\ name = "Startup"
                                   /\ logs[f].area_name = area
                                   /\ IsStatus(logs, f)
                                   /\ f = FirstStatus(logs, f)}}

LastRecording(recs) == CHOOSE r \in recs : \A q \in recs : q.at <= r.at

FirstRecording(recs) == CHOOSE r \in recs : \A q \in recs : r.at <= q.at

RECURSIVE SumRecordings(_)
SumRecordings(recs) ==
    IF recs = {} THEN 0
    ELSE LET r == CHOOSE x \in recs : TRUE
         IN r.secs + SumRecordings(recs \ {r})

RecordedNames(logs, area) ==
    {n \in {"Startup"} \cup {logs[i].message : i \in DOMAIN logs} :
        Recordings(logs, area, n) # {}}

(***************************************************************************)
(* C18: the written report gives every name recorded in an area the        *)
(* duration of the last interval recorded under it; when a name is         *)
(* recorded more than once this is neither the first interval nor the sum  *)
(* of the intervals, unless these are equal to the last one.               *)
(***************************************************************************)
C18_LastRecordingWins ==
    ReportWritten =>
        \A area \in {read_logs[i].area_name : i \in DOMAIN read_logs} :
            LET entries == report_runtime_json[1][area].Entries
            IN /\ DOMAIN entries = RecordedNames(read_logs, area)
               /\ \A n \in DOMAIN entries :
                     entries[n] =
                        FormatMinutes(LastRecording(Recordings(read_logs, area, n)).secs)

\* A name recorded three times in one area: by the first STATUS row of a segment, by a
\* STATUS row with the message "Startup", and after the area reappeared; the last interval
\* differs from the first one and from the sum.
C18_Witness ==
    /\ ReportWritten
    /\ \E area \in {read_logs[i].area_name : i \in DOMAIN read_logs} :
          LET recs == Recordings(read_logs, area, "Startup")
          IN /\ Cardinality(recs) >= 3
             /\ \E i, j, k \in DOMAIN read_logs :
                   /\ i < j /\ j < k
                   /\ read_logs[i].area_name = area
                   /\ read_logs[i].message = "Startup"
                   /\ IsStatus(read_logs, i)
                   /\ read_logs[j].area_name # area
                   /\ read_logs[k].area_name = area
             /\ Hundredths(LastRecording(recs).secs) # Hundredths(FirstRecording(recs).secs)
             /\ Hundredths(LastRecording(recs).secs) # Hundredths(SumRecordings(recs))

(***************************************************************************)
(* The rows sorted ascending by (time, insertion order).                   *)
(***************************************************************************)
RECURSIVE SortByTimeThenInsertion(_, _)
SortByTimeThenInsertion(rows, left) ==
    IF left = {} THEN <<>>
    ELSE LET i == CHOOSE i \in left :
                     \A j \in left : \/ rows[i].time < rows[j].time
                                     \/ (rows[i].time = rows[j].time /\ i <= j)
         IN <<rows[i]>> \o SortByTimeThenInsertion(rows, left \ {i})

(***************************************************************************)
(* C19 as stated: the sequence the segmentation pass iterates over is the  *)
(* run's rows sorted ascending by (time, insertion order), so rows of      *)
(* equal time are processed in the order of their insertion.               *)
(***************************************************************************)
C19_TiesInInsertionOrder ==
    Finished =>
        LET mine == RunRows(store, custom_logger.etl_id)
        IN read_logs = SortByTimeThenInsertion(mine, DOMAIN mine)

(***************************************************************************)
(* Helpers of the partition property of an area's entries.                 *)
(***************************************************************************)
RECURSIVE SumEntries(_, _)
SumEntries(entries, names) ==
    IF names = {} THEN 0
    ELSE LET n == CHOOSE x \in names : TRUE
         IN entries[n] + SumEntries(entries, names \ {n})

\* The rows of the area of row i form one contiguous segment with a STATUS row, and its
\* STATUS messages are pairwise distinct and different from "Startup".
SingleSegmentWithStatus(logs, i) ==
    /\ \A j \in DOMAIN logs : logs[j].area_name = logs[i].area_name => SameSegment(logs, i, j)
    /\ StatusIn(logs, SegLo(logs, i), SegHi(logs, i)) # {}
    /\ DistinctStatusMessages(logs, i)

(***************************************************************************)
(* C21: for an area that occupies one contiguous segment of the run, has a *)
(* STATUS row, and whose STATUS messages are pairwise distinct and         *)
(* different from "Startup", the durations of its Entries, "Startup"       *)
(* included, add up to its Total_runtime, in seconds before formatting.    *)
(***************************************************************************)
C21_EntriesPartitionAreaTotal ==
    (Finished /\ read_logs # <<>>) =>
        LET report == RuntimeLoop(read_logs)
        IN \A i \in DOMAIN read_logs :
              SingleSegmentWithStatus(read_logs, i) =>
                 LET area == report[read_logs[i].area_name]
                 IN SumEntries(area.Entries, DOMAIN area.Entries) = area.Total_runtime

\* An area in one segment that another area follows: a positive time before its first
\* STATUS row, then two sub-phases of positive length.
C21_Witness ==
    /\ ReportWritten
    /\ \E i \in DOMAIN read_logs :
          /\ SingleSegmentWithStatus(read_logs, i)
          /\ SegHi(read_logs, i) < Len(read_logs)
          /\ Cardinality(StatusIn(read_logs, SegLo(read_logs, i), SegHi(read_logs, i))) = 2
          /\ LET entries == RuntimeLoop(read_logs)[read_logs[i].area_name].Entries
             IN /\ Cardinality(DOMAIN entries) = 3
                /\ \A n \in DOMAIN entries : entries[n] > 0

====
